---- MODULE Spec2Model ----
(***************************************************************************)
(* Loan portfolio ETL: DataExtractor.validate_raw_data, the cleaning steps *)
(* of DataTransformer, the batched SQLiteDataLoader and the orchestration  *)
(* of LoanETLPipeline.run, as state machines over small record sets.       *)
(*                                                                         *)
(* A record set (pandas DataFrame) is [cols, dt, rows]: the set of column  *)
(* names, the pandas dtype of each column and the sequence of rows, each   *)
(* row a function from the column names to cells.  A cell is a record      *)
(* [k, n, d, s]: k is "null" (NaN / None / NaT), "num", "str" or "date";   *)
(* a number is the fraction n / d in lowest terms (int_rate is held in     *)
(* tenths of a percent), a date is n = year * 12 + month - 1, and s is the *)
(* text of a string.                                                       *)
(***************************************************************************)
EXTENDS Integers, Sequences, FiniteSets, TLC

\* ------------------------------------------------------------------ bounds
\* Largest number of rows of a record set handed to the transformer.
MaxRows == 3
\* Largest number of rows handed to the loader, and largest batch_size.
MaxLoadRows == 5
MaxBatchSize == 3
\* Largest number of rows the target table holds before a load.
MaxOldRows == 2
\* Number of rows of the larger raw file.
BulkRows == 11
MaxDeviation == 3

\* ------------------------------------------------------------------- cells
Null == [k |-> "null", n |-> 0, d |-> 1, s |-> ""]
Num(x) == [k |-> "num", n |-> x, d |-> 1, s |-> ""]
Str(x) == [k |-> "str", n |-> 0, d |-> 1, s |-> x]
Date(x) == [k |-> "date", n |-> x, d |-> 1, s |-> ""]
IsNull(c) == c.k = "null"

RECURSIVE Gcd(_, _)
Gcd(a, b) == IF b = 0 THEN a ELSE Gcd(b, a % b)
Abs(x) == IF x < 0 THEN -x ELSE x
\* The number a / b (b > 0) in lowest terms.
Frac(a, b) ==
    LET g == Gcd(Abs(a), b)
    IN  [k |-> "num", n |-> a \div g, d |-> b \div g, s |-> ""]

\* The rows of a sequence whose index is in K, in order (boolean indexing).
RECURSIVE KeepRows(_, _, _)
KeepRows(rows, K, i) ==
    IF i > Len(rows) THEN << >>
    ELSE IF i \in K THEN << rows[i] >> \o KeepRows(rows, K, i + 1)
    ELSE KeepRows(rows, K, i + 1)

\* Number of rows of df whose cell in column col is null: df[col].isnull().sum()
MissingCount(df, col) == Cardinality({i \in 1..Len(df.rows) : IsNull(df.rows[i][col])})

\* df.isnull().sum().sum()
TotalMissing(df) ==
    Cardinality({p \in (1..Len(df.rows)) \X df.cols : IsNull(df.rows[p[1]][p[2]])})

\* df.duplicated().sum(): rows equal to an earlier row.
DuplicateRows(df) ==
    Cardinality({i \in 1..Len(df.rows) : \E j \in 1..(i - 1) : df.rows[j] = df.rows[i]})


IsNumericDtype(d) == d \in {"int64", "float64"}
\* A dtype test that no column passes.
IsDatetimeDtypeNever(d) == FALSE
\* pd.api.types.is_datetime64_any_dtype
IsDatetimeDtype(d) == d = "datetime64"

\* ------------------------------------------------- text and date functions
\* Python's ordering of the strings of the model (code-point order), used by
\* Series.mode() to break ties.
StrRank(s) ==
    CASE s = "" -> 0
      [] s = " " -> 1
      [] s = "01-12-2018" -> 2
      [] s = "10.5%" -> 3
      [] s = "12/01/2018" -> 4
      [] s = "15.2%" -> 5
      [] s = "2018-12-01" -> 6
      [] s = "A" -> 7
      [] s = "B" -> 8
      [] s = "CHARGED OFF" -> 9
      [] s = "Charged Off" -> 10
      [] s = "Dec-2018" -> 11
      [] s = "FULLY PAID" -> 12
      [] s = "Fully Paid" -> 13
      [] s = "Jan-2000" -> 14
      [] s = "Jan-2019" -> 15
      [] s = "NONE" -> 16
      [] s = "UNKNOWN" -> 17
      [] s = "b" -> 18
      [] s = "nan" -> 19
      [] s = "none" -> 20
      [] OTHER -> 21

\* str.strip()
Strip(s) == IF s = " " THEN "" ELSE s

\* str.upper()
Upper(s) ==
    CASE s = "Fully Paid" -> "FULLY PAID"
      [] s = "Charged Off" -> "CHARGED OFF"
      [] s = "none" -> "NONE"
      [] s = "nan" -> "NAN"
      [] s = "b" -> "B"
      [] OTHER -> s

\* pd.to_numeric(str(v).replace('%', ''), errors='coerce'), in tenths.
ToNumericPct(c) ==
    CASE c.k = "num" -> c
      [] c.k = "str" /\ c.s = "10.5%" -> Num(105)
      [] c.k = "str" /\ c.s = "15.2%" -> Num(152)
      [] OTHER -> Null

\* The date formats tried by _convert_date_columns, in order.
DatePatterns == << "%b-%Y", "%Y-%m-%d", "%m/%d/%Y", "%d-%m-%Y" >>

\* datetime.strptime(s, pattern): the date, or Null when s does not match.
Strptime(s, pattern) ==
    CASE s = "Dec-2018" /\ pattern = "%b-%Y" -> Date(2018 * 12 + 11)
      [] s = "Jan-2000" /\ pattern = "%b-%Y" -> Date(2000 * 12 + 0)
      [] s = "Jan-2019" /\ pattern = "%b-%Y" -> Date(2019 * 12 + 0)
      [] s = "2018-12-01" /\ pattern = "%Y-%m-%d" -> Date(2018 * 12 + 11)
      [] s = "12/01/2018" /\ pattern = "%m/%d/%Y" -> Date(2018 * 12 + 11)
      [] s = "01-12-2018" /\ pattern = "%d-%m-%Y" -> Date(2018 * 12 + 11)
      [] OTHER -> Null

\* pd.to_datetime(value, format=pattern, errors='coerce') on one cell: a value
\* that is already a datetime is returned as it is, NaT included.
ToDatetime(c, pattern) ==
    CASE c.k = "date" -> c
      [] c.k = "str" -> Strptime(c.s, pattern)
      [] OTHER -> Null

\* any(term in col.lower() for term in ['date', 'd_', '_d', 'issue', 'last_',
\* 'next_', 'earliest']) for the column names of the model.
IsDateName(col) == col \in {"issue_d", "earliest_cr_line", "is_default"}

\* 'rate' in col.lower() or 'pct' in col.lower()
IsRateName(col) == col \in {"int_rate"}

\* ------------------------------------------- DataTransformer: missing values
CriticalColumns == {"loan_amnt", "issue_d", "loan_status"}

NonNullCells(df, col) == {i \in 1..Len(df.rows) : ~IsNull(df.rows[i][col])}

\* missing_pct > 30, with missing_pct = missing_count / len(df) * 100
MissingPctAbove30(df, col) == MissingCount(df, col) * 100 > 30 * Len(df.rows)

\* df[col].mode()[0] if not df[col].mode().empty else 'UNKNOWN'
ModeValue(df, col) ==
    LET idx == NonNullCells(df, col)
        Count(i) == Cardinality({j \in idx : df.rows[j][col] = df.rows[i][col]})
        best == {i \in idx : \A j \in idx : Count(j) <= Count(i)}
    IN  IF idx = {} THEN Str("UNKNOWN")
        ELSE LET m == CHOOSE i \in best :
                        \A j \in best : StrRank(df.rows[i][col].s) <= StrRank(df.rows[j][col].s)
             IN  df.rows[m][col]

\* a.n / a.d <= b.n / b.d
NumLeq(a, b) == a.n * b.d <= b.n * a.d

\* df[col].median(): the middle of the sorted non-null values, NaN if none.
MedianValue(df, col) ==
    LET idx == NonNullCells(df, col)
        cnt == Cardinality(idx)
        \* the number of non-null values below, or equal and earlier than, row i
        Pos(i) == Cardinality({j \in idx :
                      \/ ~NumLeq(df.rows[i][col], df.rows[j][col])
                      \/ df.rows[j][col] = df.rows[i][col] /\ j < i})
        At(k) == df.rows[CHOOSE i \in idx : Pos(i) = k][col]
    IN  IF cnt = 0 THEN Null
        ELSE IF cnt % 2 = 1 THEN At(cnt \div 2)
        ELSE LET lo == At(cnt \div 2 - 1)
                 hi == At(cnt \div 2)
             IN  Frac(lo.n * hi.d + hi.n * lo.d, 2 * lo.d * hi.d)

\* The value that replaces the nulls of column col (Null: they stay null).
FillValue(df, col) ==
    IF df.dt[col] = "object" THEN
        IF MissingPctAbove30(df, col) THEN Str("UNKNOWN") ELSE ModeValue(df, col)
    ELSE IF IsNumericDtype(df.dt[col]) THEN
        IF MissingPctAbove30(df, col) /\ IsRateName(col) THEN Num(0)
        ELSE MedianValue(df, col)
    ELSE Null

\* df.dropna(subset=critical_columns)
DropCriticalNulls(rows) ==
    KeepRows(rows, {i \in 1..Len(rows) : \A c \in CriticalColumns : ~IsNull(rows[i][c])}, 1)

\* _handle_missing_values: [df, exc].  critical_columns is assigned inside the
\* loop, after the `continue` of a column without nulls: when no column has a
\* null the name is unbound at the dropna (UnboundLocalError); when a critical
\* column is absent dropna raises KeyError.
HandleMissingValues(df) ==
    LET filled == [df EXCEPT !.rows =
                     [i \in 1..Len(df.rows) |->
                        [c \in df.cols |->
                           IF IsNull(df.rows[i][c]) THEN FillValue(df, c) ELSE df.rows[i][c]]]]
    IN  IF \A c \in df.cols : MissingCount(df, c) = 0
            THEN [df |-> filled, exc |-> "UnboundLocalError"]
        ELSE IF ~(CriticalColumns \subseteq df.cols)
            THEN [df |-> filled, exc |-> "KeyError"]
        ELSE [df |-> [filled EXCEPT !.rows = DropCriticalNulls(filled.rows)], exc |-> "none"]

\* --------------------------------------------- DataTransformer: the feature values
\* A list of default statuses that also holds the status of a repaid loan.
DefaultStatusesWithPaid ==
    {"CHARGED OFF", "DEFAULT", "LATE (31-120 DAYS)", "LATE (16-30 DAYS)", "IN GRACE PERIOD",
     "FULLY PAID"}

\* default_statuses of _create_derived_features.
DefaultStatuses ==
    {"CHARGED OFF", "DEFAULT", "LATE (31-120 DAYS)", "LATE (16-30 DAYS)", "IN GRACE PERIOD"}

\* df['loan_status'].isin(default_statuses).astype(int)
IsDefaultOf(c) == IF c.k = "str" /\ c.s \in DefaultStatuses THEN Num(1) ELSE Num(0)
\* (df['loan_status'] == 'FULLY PAID').astype(int)
IsFullyPaidOf(c) == IF c.k = "str" /\ c.s = "FULLY PAID" THEN Num(1) ELSE Num(0)

\* pd.cut(annual_inc, bins=[0, 30000, 60000, 100000, 200000, inf],
\*        include_lowest=True): right-closed bins, the first one closed at 0.
IncomeCategoryOf(c) ==
    IF c.k # "num" \/ c.n < 0 THEN Null
    ELSE IF c.n <= 30000 * c.d THEN Str("Tres faible")
    ELSE IF c.n <= 60000 * c.d THEN Str("Faible")
    ELSE IF c.n <= 100000 * c.d THEN Str("Moyen")
    ELSE IF c.n <= 200000 * c.d THEN Str("Eleve")
    ELSE Str("Tres eleve")

\* A ratio computed without replace(0, np.nan): a division by zero gives inf.
LoanToIncomeNoReplace(amnt, inc) ==
    IF amnt.k # "num" \/ inc.k # "num" THEN Null
    ELSE IF inc.n = 0 THEN Str("inf")
    ELSE IF inc.n > 0 THEN Frac(amnt.n * inc.d, amnt.d * inc.n)
    ELSE Frac(-(amnt.n * inc.d), amnt.d * (-inc.n))

\* df['loan_amnt'] / df['annual_inc'].replace(0, np.nan)
LoanToIncomeOf(amnt, inc) ==
    IF amnt.k # "num" \/ inc.k # "num" \/ inc.n = 0 THEN Null
    ELSE IF inc.n > 0 THEN Frac(amnt.n * inc.d, amnt.d * inc.n)
    ELSE Frac(-(amnt.n * inc.d), amnt.d * (-inc.n))

\* _get_season: a NaN month is in none of the lists and falls to the else.
GetSeason(month) ==
    IF month.k = "num" /\ month.n \in {12, 1, 2} THEN Str("Hiver")
    ELSE IF month.k = "num" /\ month.n \in {3, 4, 5} THEN Str("Printemps")
    ELSE IF month.k = "num" /\ month.n \in {6, 7, 8} THEN Str("Ete")
    ELSE Str("Automne")

IssueYearOf(c) == IF c.k = "date" THEN Num(c.n \div 12) ELSE Null
IssueMonthOf(c) == IF c.k = "date" THEN Num((c.n % 12) + 1) ELSE Null
IssueQuarterOf(c) == IF c.k = "date" THEN Num((c.n % 12) \div 3 + 1) ELSE Null

\* pd.cut(int_rate, bins=[0, 5, 10, 15, 20, 30, inf]): right-closed bins, 0
\* itself in none; int_rate is held in tenths of a percent.
IntRateCategoryOf(c) ==
    IF c.k # "num" \/ c.n <= 0 THEN Null
    ELSE IF c.n <= 50 * c.d THEN Str("0-5%")
    ELSE IF c.n <= 100 * c.d THEN Str("5-10%")
    ELSE IF c.n <= 150 * c.d THEN Str("10-15%")
    ELSE IF c.n <= 200 * c.d THEN Str("15-20%")
    ELSE IF c.n <= 300 * c.d THEN Str("20-30%")
    ELSE Str("30%+")

\* The day number of the first day of the month a date cell holds (the dates
\* of the model are first days of a month): the days since 0001-01-01.
IsLeapYear(y) == (y % 4 = 0 /\ y % 100 # 0) \/ y % 400 = 0
DaysBeforeMonth(m) ==
    << 0, 31, 59, 90, 120, 151, 181, 212, 243, 273, 304, 334 >>[m]
DayNumber(n) ==
    LET y == n \div 12
        m == (n % 12) + 1
    IN  365 * (y - 1) + (y - 1) \div 4 - (y - 1) \div 100 + (y - 1) \div 400
        + DaysBeforeMonth(m) + (IF m > 2 /\ IsLeapYear(y) THEN 1 ELSE 0)

\* (df['issue_d'] - df['earliest_cr_line']).dt.days / 365.25
CreditAgeYearsOf(issue, earliest) ==
    IF issue.k # "date" \/ earliest.k # "date" THEN Null
    ELSE LET days == DayNumber(issue.n) - DayNumber(earliest.n)
         IN  IF days >= 0 THEN Frac(days * 4, 1461)
             ELSE [k |-> "num", n |-> -(Frac(-days * 4, 1461).n),
                   d |-> Frac(-days * 4, 1461).d, s |-> ""]

\* pd.cut(credit_age_years, bins=[0, 2, 5, 10, 20, inf]): right-closed bins,
\* 0 itself in none.
CreditAgeCategoryOf(c) ==
    IF c.k # "num" \/ c.n <= 0 THEN Null
    ELSE IF c.n <= 2 * c.d THEN Str("0-2 ans")
    ELSE IF c.n <= 5 * c.d THEN Str("2-5 ans")
    ELSE IF c.n <= 10 * c.d THEN Str("5-10 ans")
    ELSE IF c.n <= 20 * c.d THEN Str("10-20 ans")
    ELSE Str("20+ ans")

\* df['grade'].map(grade_risk_map): a grade that is no key of the map gives NaN.
RiskCategoryOf(c) ==
    IF c.k # "str" THEN Null
    ELSE CASE c.s = "A" -> Str("Faible risque")
           [] c.s = "B" -> Str("Risque modere")
           [] c.s = "C" -> Str("Risque moyen")
           [] c.s = "D" -> Str("Risque eleve")
           [] c.s = "E" -> Str("Risque tres eleve")
           [] c.s \in {"F", "G"} -> Str("Risque extreme")
           [] OTHER -> Null

\* The value a column assignment df[col] = ... gives the row r: the conversions
\* of _convert_data_types and _convert_date_columns and the derived features.
AssignedValue(a, r) ==
    CASE a.op = "to_numeric"           -> ToNumericPct(r["int_rate"])
      [] a.op = "to_datetime"          -> ToDatetime(r[a.col], a.pattern)
      [] a.op = "is_default"           -> IsDefaultOf(r["loan_status"])
      [] a.op = "is_fully_paid"        -> IsFullyPaidOf(r["loan_status"])
      [] a.op = "income_category"      -> IncomeCategoryOf(r["annual_inc"])
      [] a.op = "loan_to_income_ratio" -> LoanToIncomeOf(r["loan_amnt"], r["annual_inc"])
      [] a.op = "credit_age_years"     -> CreditAgeYearsOf(r["issue_d"], r["earliest_cr_line"])
      [] a.op = "risk_category"        -> RiskCategoryOf(r["grade"])
      [] a.op = "issue_year"           -> IssueYearOf(r["issue_d"])
      [] a.op = "issue_month"          -> IssueMonthOf(r["issue_d"])
      [] a.op = "issue_quarter"        -> IssueQuarterOf(r["issue_d"])
      [] a.op = "int_rate_category"    -> IntRateCategoryOf(r["int_rate"])

\* df[col] = ... (a new or replaced column) with dtype d.
SetColumn(df, col, d, a) ==
    [cols |-> df.cols \cup {col},
     dt   |-> [c \in df.cols \cup {col} |-> IF c = col THEN d ELSE df.dt[c]],
     rows |-> [i \in 1..Len(df.rows) |->
                 [c \in df.cols \cup {col} |->
                     IF c = col THEN AssignedValue(a, df.rows[i]) ELSE df.rows[i][c]]]]

\* ------------------------------------------------ DataTransformer: the types
\* df[col].nunique(): the number of distinct non-null values.
NUnique(df, col) == Cardinality({df.rows[i][col] : i \in NonNullCells(df, col)})

\* The column profile of _convert_data_types: a date column by its name, else
\* numeric by its dtype, else categorical when it is text with fewer than 50
\* distinct values and fewer than len(df) * 0.1 of them.
DateColumnsOf(df) == {c \in df.cols : IsDateName(c)}
NumericColumnsOf(df) == {c \in df.cols : ~IsDateName(c) /\ IsNumericDtype(df.dt[c])}
CategoricalColumnsOf(df) ==
    {c \in df.cols : /\ ~IsDateName(c)
                     /\ df.dt[c] = "object"
                     /\ NUnique(df, c) < 50
                     /\ NUnique(df, c) * 10 < Len(df.rows)}

\* _convert_data_types: the profile, int_rate made numeric ("10.5%" -> 10.5,
\* anything that is no number -> NaN), the categorical columns made category.
ConvertDataTypes(df) ==
    LET cat == CategoricalColumnsOf(df)
        d1 == IF "int_rate" \in df.cols
              THEN SetColumn(df, "int_rate", "float64", [op |-> "to_numeric"])
              ELSE df
        d2 == [d1 EXCEPT !.dt = [c \in d1.cols |-> IF c \in cat THEN "category" ELSE d1.dt[c]]]
    IN  [df |-> d2,
         numeric_columns |-> NumericColumnsOf(df),
         categorical_columns |-> cat,
         date_columns |-> DateColumnsOf(df)]

\* The loop over date_patterns for one column: each attempt overwrites the
\* column with the parsed values (NaT where the format does not match) and the
\* loop stops at the first attempt that leaves a non-null value.
RECURSIVE TryDatePatterns(_, _, _)
TryDatePatterns(df, col, p) ==
    IF p > Len(DatePatterns) THEN df
    ELSE LET parsed == SetColumn(df, col, "datetime64",
                                 [op |-> "to_datetime", col |-> col, pattern |-> DatePatterns[p]])
         IN  IF NonNullCells(parsed, col) # {} THEN parsed
             ELSE TryDatePatterns(parsed, col, p + 1)

\* _convert_date_columns over self.date_columns (the columns are independent).
RECURSIVE ConvertDateColumns(_, _)
ConvertDateColumns(df, date_columns) ==
    IF date_columns = {} THEN df
    ELSE LET col == CHOOSE c \in date_columns : TRUE
             rest == date_columns \ {col}
         IN  IF col \notin df.cols THEN ConvertDateColumns(df, rest)
             ELSE ConvertDateColumns(TryDatePatterns(df, col, 1), rest)

\* ------------------------------------------------- DataTransformer: the text
NullTokens == {"nan", "none", "null", "na", ""}
UpperColumns == {"loan_status", "grade", "sub_grade", "emp_title"}

\* One cell of a text column: astype(str).str.strip(), the null tokens made
\* NaN, then str.upper() for the columns of UpperColumns.
CleanTextCell(col, c) ==
    LET txt == IF c.k = "null" THEN "nan" ELSE Strip(c.s)
    IN  IF txt \in NullTokens THEN Null
        ELSE IF col \in UpperColumns THEN Str(Upper(txt))
        ELSE Str(txt)

\* _clean_text_columns: every column whose dtype is object.
CleanTextColumns(df) ==
    [df EXCEPT !.rows =
        [i \in 1..Len(df.rows) |->
            [c \in df.cols |->
                IF df.dt[c] = "object" THEN CleanTextCell(c, df.rows[i][c])
                ELSE df.rows[i][c]]]]

\* ----------------------------------- DataTransformer: _create_derived_features
\* The derived columns _create_derived_features assigns for the columns and
\* dtypes of df, a block being run when its input columns are present (and,
\* for the date blocks, datetime).
CreatedFeatures(df) ==
    (IF "loan_status" \in df.cols THEN {"is_default", "is_fully_paid"} ELSE {})
    \cup (IF "annual_inc" \in df.cols THEN {"income_category"} ELSE {})
    \cup (IF {"loan_amnt", "annual_inc"} \subseteq df.cols
          THEN {"loan_to_income_ratio"} ELSE {})
    \cup (IF {"earliest_cr_line", "issue_d"} \subseteq df.cols
             /\ IsDatetimeDtype(df.dt["earliest_cr_line"])
             /\ IsDatetimeDtype(df.dt["issue_d"])
          THEN {"credit_age_years", "credit_age_category"} ELSE {})
    \cup (IF "grade" \in df.cols THEN {"risk_category"} ELSE {})
    \cup (IF "issue_d" \in df.cols /\ IsDatetimeDtype(df.dt["issue_d"])
          THEN {"issue_year", "issue_month", "issue_quarter", "issue_season"} ELSE {})
    \cup (IF "int_rate" \in df.cols THEN {"int_rate_category"} ELSE {})

\* The dtype of a derived column.
FeatureDtype(f) ==
    CASE f \in {"is_default", "is_fully_paid"} -> "int64"
      [] f \in {"income_category", "credit_age_category", "int_rate_category"} -> "category"
      [] f \in {"risk_category", "issue_season"} -> "object"
      [] OTHER -> "float64"

\* The value of the derived column f in the row r of the input: each block
\* reads input columns, credit_age_category the credit_age_years and
\* issue_season the issue_month assigned just before it.
FeatureValue(f, r) ==
    CASE f = "credit_age_category" ->
            CreditAgeCategoryOf(CreditAgeYearsOf(r["issue_d"], r["earliest_cr_line"]))
      [] f = "issue_season" -> GetSeason(IssueMonthOf(r["issue_d"]))
      [] OTHER -> AssignedValue([op |-> f], r)

CreateDerivedFeatures(df) ==
    LET created == CreatedFeatures(df)
        cols == df.cols \cup created
    IN  [cols |-> cols,
         dt   |-> [c \in cols |-> IF c \in created THEN FeatureDtype(c) ELSE df.dt[c]],
         rows |-> [i \in 1..Len(df.rows) |->
                     [c \in cols |-> IF c \in created THEN FeatureValue(c, df.rows[i])
                                     ELSE df.rows[i][c]]]]

\* ------------------------------------------------------------- the validators
\* df.empty: no row, or no column.
DfEmpty(df) == Len(df.rows) = 0 \/ df.cols = {}

\* (df[col] <= 0).sum(): a NaN compares False.
NonPositiveCount(df, col) ==
    Cardinality({i \in 1..Len(df.rows) : df.rows[i][col].k = "num" /\ df.rows[i][col].n <= 0})

RawRequiredColumns == {"loan_amnt", "int_rate", "issue_d", "loan_status"}
CleanRequiredColumns == {"loan_amnt", "int_rate", "issue_d", "loan_status", "is_default"}

\* The status after the checks of validate_raw_data, in the order of the code:
\* 'FAIL' for an empty set, then 'WARNING' (overwriting it) for a missing column.
RawStatus(df) ==
    LET s1 == IF DfEmpty(df) THEN "FAIL" ELSE "PASS"
    IN  IF RawRequiredColumns \ df.cols # {} THEN "WARNING" ELSE s1

\* DataExtractor.validate_raw_data
ValidateRawData(df) ==
    [status |-> RawStatus(df),
     issues |-> (IF DfEmpty(df) THEN << "DataFrame vide" >> ELSE << >>)
                \o (IF RawRequiredColumns \ df.cols # {}
                    THEN << "Colonnes manquantes" >> ELSE << >>)
                \o (IF "loan_amnt" \in df.cols /\ NonPositiveCount(df, "loan_amnt") > 0
                    THEN << "prets avec montant negatif ou nul" >> ELSE << >>),
     stats |-> [total_rows |-> Len(df.rows),
                total_columns |-> Cardinality(df.cols),
                missing_values |-> TotalMissing(df)]]

\* missing_values > len(df) * len(df.columns) * 0.05
TooManyMissing(df) == TotalMissing(df) * 100 > 5 * Len(df.rows) * Cardinality(df.cols)

\* A validator that degrades the status to WARNING on a data-quality issue.
CleanedStatusWarns(df) ==
    IF DfEmpty(df) \/ {"loan_amnt", "int_rate", "issue_d", "loan_status", "is_default"} \ df.cols # {}
    THEN "FAIL"
    ELSE IF DuplicateRows(df) > 0 \/ TooManyMissing(df) THEN "WARNING"
    ELSE "PASS"

\* The status after the checks of _validate_cleaned_data: 'FAIL' for an empty
\* set and for any missing required column; no check sets 'WARNING'.
CleanedStatus(df) ==
    IF DfEmpty(df) \/ CleanRequiredColumns \ df.cols # {} THEN "FAIL" ELSE "PASS"

\* DataTransformer._validate_cleaned_data
ValidateCleanedData(df) ==
    [status |-> CleanedStatus(df),
     issues |-> (IF DfEmpty(df) THEN << "DataFrame vide" >> ELSE << >>)
                \o (IF DuplicateRows(df) > 0 THEN << "lignes dupliquees" >> ELSE << >>)
                \o (IF TooManyMissing(df) THEN << "Trop de valeurs manquantes" >> ELSE << >>)
                \o (IF CleanRequiredColumns \ df.cols # {}
                    THEN << "Colonnes requises manquantes" >> ELSE << >>)
                \o (IF "annual_inc" \in df.cols /\ NonPositiveCount(df, "annual_inc") > 0
                    THEN << "revenus annuels negatifs ou nuls" >> ELSE << >>),
     stats |-> [total_rows |-> Len(df.rows),
                total_columns |-> Cardinality(df.cols),
                missing_values |-> TotalMissing(df),
                duplicate_rows |-> DuplicateRows(df)]]

\* ------------------------------------------- DataTransformer: outliers
\* _handle_outliers (step 7 of clean_loan_data, run when
\* config['remove_outliers'] is set; the default and the pipeline leave it
\* False).  The rows of df[col] below mean - threshold * std or above
\* mean + threshold * std, std being the sample deviation: with N values u_i
\* brought to a common denominator and S their sum,
\* |u_i - S/N| > t * std  iff  (N - 1) * (N*u_i - S)^2 > t^2 * SUM_j (N*u_j - S)^2
\* (the deviations N*u_i - S are divided by their common divisor first).
\* A column of fewer than two values has a NaN std and no outlier.
outlier_threshold == 3
RECURSIVE CommonDenominator(_, _, _)
CommonDenominator(rows, col, i) ==
    IF i > Len(rows) THEN 1
    ELSE (IF rows[i][col].k = "num" THEN rows[i][col].d ELSE 1)
         * CommonDenominator(rows, col, i + 1)
RECURSIVE SumOver(_, _, _)
SumOver(f, n, i) == IF i > n THEN 0 ELSE f[i] + SumOver(f, n, i + 1)
RECURSIVE GcdOver(_, _, _)
GcdOver(f, n, i) == IF i > n THEN 0 ELSE Gcd(Abs(f[i]), GcdOver(f, n, i + 1))
OutlierRows(df, col, t) ==
    LET rows == df.rows
        D == CommonDenominator(rows, col, 1)
        vals == {i \in 1..Len(rows) : rows[i][col].k = "num"}
        N == Cardinality(vals)
        u == [i \in 1..Len(rows) |->
                IF i \in vals THEN rows[i][col].n * (D \div rows[i][col].d) ELSE 0]
        S == SumOver(u, Len(rows), 1)
        raw == [i \in 1..Len(rows) |-> IF i \in vals THEN N * u[i] - S ELSE 0]
        g == GcdOver(raw, Len(rows), 1)
        dev == [i \in 1..Len(rows) |-> IF g = 0 THEN 0 ELSE raw[i] \div g]
        sq == [i \in 1..Len(rows) |-> dev[i] * dev[i]]
    IN  IF N < 2 THEN {}
        ELSE {i \in vals : (N - 1) * sq[i] > t * t * SumOver(sq, Len(rows), 1)}

\* The bound an outlier is replaced by (mean - threshold * std or
\* mean + threshold * std), kept as a numeric cell that names it.
WinsorBound(col) == [k |-> "num", n |-> 0, d |-> 1, s |-> "mean +/- threshold * std"]

HandleOutliers(df, numeric, t) ==
    [df EXCEPT !.rows =
        [i \in 1..Len(df.rows) |->
            [c \in df.cols |->
                IF c \in numeric \ {"is_default", "is_fully_paid"}
                   /\ i \in OutlierRows(df, c, t)
                THEN WinsorBound(c) ELSE df.rows[i][c]]]]

\* ------------------------------------------- LoanETLPipeline._select_columns
EssentialColumns ==
    << "loan_amnt", "int_rate", "term", "grade", "issue_d", "loan_status",
       "annual_inc", "dti", "home_ownership", "emp_length", "purpose",
       "addr_state", "delinq_2yrs", "revol_util", "total_pymnt", "is_default",
       "is_fully_paid" >>
AdditionalColumns ==
    << "funded_amnt", "installment", "sub_grade", "verification_status",
       "earliest_cr_line", "inq_last_6mths", "open_acc", "pub_rec", "revol_bal",
       "total_acc", "total_rec_prncp", "total_rec_int", "last_pymnt_d",
       "last_pymnt_amnt" >>
max_columns == 25

\* The elements of list that are in S, in the order of list.
RECURSIVE Available(_, _, _)
Available(list, S, i) ==
    IF i > Len(list) THEN << >>
    ELSE IF list[i] \in S THEN << list[i] >> \o Available(list, S, i + 1)
    ELSE Available(list, S, i + 1)

\* The loop that appends the additional columns while len(selected) < max_cols.
RECURSIVE AddUpTo(_, _, _, _)
AddUpTo(selected, more, i, max) ==
    IF i > Len(more) \/ Len(selected) >= max THEN selected
    ELSE AddUpTo(Append(selected, more[i]), more, i + 1, max)

SelectedColumns(cols, max) ==
    AddUpTo(Available(EssentialColumns, cols, 1), Available(AdditionalColumns, cols, 1), 1, max)

\* df[selected_cols].copy()
\* A selection that also drops the rows that still hold a null.
SelectColumnsDropNulls(df, max) ==
    LET sel == {SelectedColumns(df.cols, max)[i] : i \in 1..Len(SelectedColumns(df.cols, max))}
        kept == KeepRows(df.rows, {i \in 1..Len(df.rows) :
                                      \A c \in sel : ~IsNull(df.rows[i][c])}, 1)
    IN  [cols |-> sel,
         dt   |-> [c \in sel |-> df.dt[c]],
         rows |-> [i \in 1..Len(kept) |-> [c \in sel |-> kept[i][c]]]]

SelectColumns(df, max) ==
    LET sel == {SelectedColumns(df.cols, max)[i] : i \in 1..Len(SelectedColumns(df.cols, max))}
    IN  [cols |-> sel,
         dt   |-> [c \in sel |-> df.dt[c]],
         rows |-> [i \in 1..Len(df.rows) |-> [c \in sel |-> df.rows[i][c]]]]

\* ------------------------------------------------------------ the raw inputs
\* The dtype read_csv gives a column: object when a value is text, int64 for
\* whole numbers without a null, float64 otherwise (an all-null column too).
InferDtype(rows, col) ==
    IF \E i \in 1..Len(rows) : rows[i][col].k = "str" THEN "object"
    ELSE IF Len(rows) > 0 /\ \A i \in 1..Len(rows) : rows[i][col].k = "num" THEN "int64"
    ELSE "float64"

MkDf(cols, rows) ==
    LET proj == [i \in 1..Len(rows) |-> [c \in cols |-> rows[i][c]]]
    IN  [cols |-> cols, dt |-> [c \in cols |-> InferDtype(proj, c)], rows |-> proj]

MkRow(amnt, rate, issue, status, inc) ==
    [loan_amnt |-> amnt, int_rate |-> rate, issue_d |-> issue,
     loan_status |-> status, annual_inc |-> inc,
     earliest_cr_line |-> Str("Jan-2000"), grade |-> Str("A")]

\* A row with its earliest_cr_line and grade given.
MkWideRow(amnt, rate, issue, status, inc, earliest, grade) ==
    [loan_amnt |-> amnt, int_rate |-> rate, issue_d |-> issue,
     loan_status |-> status, annual_inc |-> inc,
     earliest_cr_line |-> earliest, grade |-> grade]

\* The rows a raw set is made of.
RawRows ==
    { MkWideRow(Num(10000), Str("10.5%"), Str("2018-12-01"), Str("FULLY PAID"), Num(50000),
                Str("Jan-2000"), Str("A")),
      MkWideRow(Null, Str("15.2%"), Null, Str("CHARGED OFF"), Num(0),
                Null, Str("b")),
      MkWideRow(Num(20000), Str("15.2%"), Str("Dec-2018"), Str("Charged Off"), Num(50000),
                Str("Dec-2018"), Str("A")),
      MkWideRow(Num(10000), Null, Str("Jan-2019"), Str("Fully Paid"), Null,
                Str("Jan-2000"), Null),
      MkWideRow(Num(0), Str("10.5%"), Str("Dec-2018"), Str("none"), Num(70000),
                Str("Jan-2019"), Str("A")),
      MkWideRow(Num(10000), Str("10.5%"), Str("Dec-2018"), Null, Num(50000),
                Str("Jan-2000"), Str("b")) }

AllColumns == {"loan_amnt", "int_rate", "issue_d", "loan_status", "annual_inc"}

\* The column sets of the raw sets: the five columns, these and
\* earliest_cr_line and grade, and the sets of five that lack
\* annual_inc, int_rate (required, not critical) or loan_amnt (critical).
WideColumns == AllColumns \cup {"earliest_cr_line", "grade"}
RawColumnSets ==
    { AllColumns,
      WideColumns,
      AllColumns \ {"annual_inc"},
      AllColumns \ {"int_rate"},
      AllColumns \ {"loan_amnt"} }

RECURSIVE SeqsUpTo(_, _)
SeqsUpTo(S, n) ==
    IF n = 0 THEN {<< >>}
    ELSE LET shorter == SeqsUpTo(S, n - 1)
         IN  shorter \cup {Append(q, x) : q \in {r \in shorter : Len(r) = n - 1}, x \in S}

\* A larger file: BulkRows rows with one loan_status, one issue_d in the
\* %Y-%m-%d format and a numeric int_rate that is missing in the first row.
\* With BulkRows rows a text column of one distinct value has
\* nunique < len(df) * 0.1.
BulkRow(i) ==
    MkRow(Num(20000), IF i = 1 THEN Null ELSE Num(152), Str("2018-12-01"),
          Str("Charged Off"), Num(50000))
BulkInputs == {MkDf(AllColumns, [i \in 1..BulkRows |-> BulkRow(i)])}

RawInputs ==
    {MkDf(cols, rows) : cols \in RawColumnSets, rows \in SeqsUpTo(RawRows, MaxRows)}
    \cup BulkInputs

\* =================================================================== state
VARIABLES
    pc,                  \* position of LoanETLPipeline.run
    df_raw,              \* the set returned by extract
    df,                  \* df_clean / df_final, the set being transformed
    numeric_columns,     \* DataTransformer.numeric_columns
    categorical_columns, \* DataTransformer.categorical_columns
    date_columns,        \* DataTransformer.date_columns
    raw_validation,      \* the report of validate_raw_data
    validation_report,   \* the report of _validate_cleaned_data
    started,             \* the stages of the run that were entered, in order
    completed,           \* the stages of the run that returned, in order
    first_error,         \* the message of the first exception raised in a stage
    report,              \* the run report returned by run
    batch_size,          \* config['batch_size'] / the batch_size argument
    max_cols,            \* config['max_columns']
    table,               \* the committed rows of the target table
    table_exists,        \* whether the target table exists
    commits,             \* the write transactions committed by the load
    load_validation,     \* the result of _validate_load
    target,              \* the stored table a _validate_load call is handed
    lpc,                 \* position of SQLiteDataLoader.load_to_sqlite
    conn,                \* SQLiteDataLoader.conn is not None
    data,                \* the prepared rows handed to _insert_data_simple
    submitted,           \* the batches handed to executemany, in order
    indexed,             \* _create_indexes was run
    index_errors,        \* a statement of _create_indexes raised
    ret,                 \* the value load_to_sqlite returned
    calls                \* the calls of load_to_sqlite so far

pipeVars == << pc, df_raw, df, numeric_columns, categorical_columns, date_columns,
               raw_validation, validation_report, started, completed, first_error,
               report >>
configVars == << batch_size, max_cols >>
storeVars == << configVars, table, table_exists, commits, load_validation, target >>
loaderVars == << lpc, conn, data, submitted, indexed, index_errors, ret, calls >>
vars == << pipeVars, storeVars, loaderVars >>

NoDf == [cols |-> {}, dt |-> << >>, rows |-> << >>]
NoReport == [status |-> "none", issues |-> << >>]
NoLoadValidation ==
    [success |-> TRUE, issues |-> << >>, actual_rows |-> 0, expected_rows |-> 0, run |-> FALSE]

\* ---------------------------------------------------------- _validate_load
\* The critical columns _validate_load counts the NULLs of, in the order of
\* the loop: SQLiteDataLoader's and DataLoader's.
ValidatedColumns(loader) ==
    IF loader = "SQLiteDataLoader"
    THEN << "loan_amnt", "int_rate", "loan_status" >>
    ELSE << "loan_amnt", "int_rate", "issue_d", "loan_status" >>

\* What _validate_load is handed: the loader it belongs to, whether the table
\* exists, its row count, expected_rows, per validated column the number of
\* NULLs (-1: the table has no such column) and the number of rows with
\* loan_amnt <= 0.
NoNulls == [c \in {"loan_amnt", "int_rate", "issue_d", "loan_status"} |-> 0]
NoTarget ==
    [loader |-> "none", exists |-> FALSE, rows |-> 0, expected |-> 0,
     nulls |-> NoNulls, invalid_amounts |-> 0]

\* abs(actual_rows - expected_rows) > expected_rows * 0.01 of SQLiteDataLoader,
\* actual_rows != expected_rows of DataLoader.
RowCountIncorrect(loader, actual, expected) ==
    IF loader = "SQLiteDataLoader"
    THEN (IF actual >= expected THEN actual - expected ELSE expected - actual) * 100 > expected
    ELSE actual # expected

NullIssue(c) ==
    CASE c = "loan_amnt" -> "Colonne 'loan_amnt': valeurs NULL"
      [] c = "int_rate" -> "Colonne 'int_rate': valeurs NULL"
      [] c = "issue_d" -> "Colonne 'issue_d': valeurs NULL"
      [] c = "loan_status" -> "Colonne 'loan_status': valeurs NULL"

\* The loop over the critical columns from the i-th on: the issues it appends
\* and whether a query raised out of it.  SQLiteDataLoader passes over a
\* column whose query raises (bare except: pass); DataLoader lets it raise.
RECURSIVE NullChecks(_, _, _)
NullChecks(loader, nulls, i) ==
    LET cols == ValidatedColumns(loader)
    IN  IF i > Len(cols) THEN [issues |-> << >>, raised |-> FALSE]
        ELSE LET c == cols[i]
                 rest == NullChecks(loader, nulls, i + 1)
             IN  IF nulls[c] < 0
                 THEN IF loader = "SQLiteDataLoader" THEN rest
                      ELSE [issues |-> << >>, raised |-> TRUE]
                 ELSE IF nulls[c] > 0
                 THEN [issues |-> << NullIssue(c) >> \o rest.issues, raised |-> rest.raised]
                 ELSE rest

\* _validate_load of SQLiteDataLoader and of DataLoader: the row count, the
\* NULL counts, (DataLoader) the invalid amounts; an exception of a query sets
\* success to False and appends the error to the issues found so far.
ValidateStored(t) ==
    IF ~t.exists
    THEN [success |-> FALSE, issues |-> << "Erreur de validation" >>,
          actual_rows |-> 0, expected_rows |-> t.expected, run |-> TRUE]
    ELSE LET bad == RowCountIncorrect(t.loader, t.rows, t.expected)
             rowIssue == IF bad THEN << "Nombre de lignes incorrect" >> ELSE << >>
             nc == NullChecks(t.loader, t.nulls, 1)
             amounts == IF t.loader = "DataLoader" /\ ~nc.raised /\ t.invalid_amounts > 0
                        THEN << "Montants de pret invalides" >> ELSE << >>
             err == IF nc.raised THEN << "Erreur de validation" >> ELSE << >>
         IN  [success |-> ~bad /\ ~nc.raised,
              issues |-> rowIssue \o nc.issues \o amounts \o err,
              actual_rows |-> t.rows, expected_rows |-> t.expected, run |-> TRUE]

\* ------------------------------------------------------ LoanETLPipeline.run
\* The configurations of the pipeline: the default one with a batch_size of
\* 1..MaxBatchSize, and the default batch_size with a max_columns below the
\* number of essential columns a cleaned set has.
batch_size_default == 500
ConfiguredMaxColumns == {3, max_columns}
Configs ==
    {[batch_size |-> b, max_columns |-> max_columns] : b \in 1..MaxBatchSize}
    \cup {[batch_size |-> batch_size_default, max_columns |-> m] : m \in ConfiguredMaxColumns}

Stages == << "extract", "transform", "load" >>

SuccessReport(rows) == [status |-> "success", error |-> "", rows_processed |-> rows]
\* A handler whose report has neither the failed status nor the message.
FailedReportBare(e) == [status |-> "error", error |-> "", rows_processed |-> 0]

\* The except branch of run and of run_pipeline: the report carries str(e).
FailedReport(e) == [status |-> "failed", error |-> e, rows_processed |-> 0]

\* A run that swallows the exception of a stage and goes on with the next one.
PcAfterRaiseContinues(next) == next
\* Where run goes when a stage raises: the except branch returns the report.
PcAfterRaise(next) == "done"

\* A stage (or step of it) raises e: the stage logs and re-raises, run reports.
Raise(e, next) ==
    /\ pc' = PcAfterRaise(next)
    /\ first_error' = (IF first_error = "" THEN e ELSE first_error)
    /\ report' = (IF PcAfterRaise(next) = "done" THEN FailedReport(e) ELSE report)

\* run_pipeline: LoanETLPipeline(config), then pipeline.run().  The constructor
\* creates the directories and the components; an exception it raises
\* (a directory that cannot be created) is caught by run_pipeline.
Construct ==
    /\ pc = "new"
    /\ \/ pc' = "start" /\ UNCHANGED report
       \/ pc' = "done" /\ report' = FailedReport("PermissionError")
    /\ UNCHANGED << df_raw, df, numeric_columns, categorical_columns, date_columns,
                    raw_validation, validation_report, started, completed, first_error,
                    storeVars, loaderVars >>

\* extract: no CSV file raises FileNotFoundError; otherwise the file is read
\* and validated, and a FAIL status raises ValueError.
ExtractGate(status) == status = "FAIL"

Extract ==
    /\ pc = "start"
    /\ started' = Append(started, "extract")
    /\ \/ /\ Raise("Aucun fichier CSV", "extracted")
          /\ UNCHANGED << df_raw, raw_validation, completed >>
       \/ \E raw \in RawInputs :
            /\ df_raw' = raw
            /\ raw_validation' = ValidateRawData(raw)
            /\ IF ExtractGate(ValidateRawData(raw).status)
               THEN /\ Raise("Validation des donnees echouee", "extracted")
                    /\ UNCHANGED completed
               ELSE /\ pc' = "extracted"
                    /\ completed' = Append(completed, "extract")
                    /\ UNCHANGED << first_error, report >>
    /\ UNCHANGED << df, numeric_columns, categorical_columns, date_columns,
                    validation_report, storeVars, loaderVars >>

\* transform, first step: clean_loan_data copies the raw set (its column names
\* are already standard) and runs _handle_missing_values.
HandleMissing ==
    /\ pc = "extracted"
    /\ started' = Append(started, "transform")
    /\ LET r == HandleMissingValues(df_raw)
       IN  IF r.exc # "none"
           THEN Raise(r.exc, "missing") /\ UNCHANGED df
           ELSE /\ pc' = "missing"
                /\ df' = r.df
                /\ UNCHANGED << first_error, report >>
    /\ UNCHANGED << df_raw, numeric_columns, categorical_columns, date_columns,
                    raw_validation, validation_report, completed, storeVars, loaderVars >>

ConvertTypes ==
    /\ pc = "missing"
    /\ pc' = "typed"
    /\ LET r == ConvertDataTypes(df)
       IN  /\ df' = r.df
           /\ numeric_columns' = r.numeric_columns
           /\ categorical_columns' = r.categorical_columns
           /\ date_columns' = r.date_columns
    /\ UNCHANGED << df_raw, raw_validation, validation_report, started, completed,
                    first_error, report, storeVars, loaderVars >>

ConvertDates ==
    /\ pc = "typed"
    /\ pc' = "dated"
    /\ df' = ConvertDateColumns(df, date_columns)
    /\ UNCHANGED << df_raw, numeric_columns, categorical_columns, date_columns,
                    raw_validation, validation_report, started, completed,
                    first_error, report, storeVars, loaderVars >>

CleanText ==
    /\ pc = "dated"
    /\ pc' = "text"
    /\ df' = CleanTextColumns(df)
    /\ UNCHANGED << df_raw, numeric_columns, categorical_columns, date_columns,
                    raw_validation, validation_report, started, completed,
                    first_error, report, storeVars, loaderVars >>

DeriveFeatures ==
    /\ pc = "text"
    /\ pc' = "featured"
    /\ df' = CreateDerivedFeatures(df)
    /\ UNCHANGED << df_raw, numeric_columns, categorical_columns, date_columns,
                    raw_validation, validation_report, started, completed,
                    first_error, report, storeVars, loaderVars >>

\* The last step of clean_loan_data: the report is computed and its status is
\* logged; clean_loan_data then returns df_clean whatever the status.
CleanGate(status) == FALSE

ValidateCleaned ==
    /\ pc = "featured"
    /\ validation_report' = ValidateCleanedData(df)
    /\ IF CleanGate(ValidateCleanedData(df).status)
       THEN Raise("Validation des donnees echouee", "cleaned")
       ELSE pc' = "cleaned" /\ UNCHANGED << first_error, report >>
    /\ UNCHANGED << df_raw, df, numeric_columns, categorical_columns, date_columns,
                    raw_validation, started, completed, storeVars, loaderVars >>

\* transform, after clean_loan_data: _select_columns and the save of the CSV.
SelectAndSave ==
    /\ pc = "cleaned"
    /\ pc' = "transformed"
    /\ df' = SelectColumns(df, max_cols)
    /\ completed' = Append(completed, "transform")
    /\ UNCHANGED << df_raw, numeric_columns, categorical_columns, date_columns,
                    raw_validation, validation_report, started, first_error, report,
                    storeVars, loaderVars >>

\* ------------------------------------------- the load stage of the pipeline
\* load_to_sqlite_ultra_simple: df.to_sql(if_exists='replace', chunksize=1000)
\* on a sqlite3 connection writes every chunk inside one transaction, whatever
\* config['batch_size'] is.
ToSqlChunkSize == 1000
ToSqlCommits(nrows, bs) == 1

\* The exception load raises when run_simple_load returned False: the message
\* of the exception caught inside the loader is only logged there.
LoadFailureMessage(original) == "Echec du chargement dans la base de donnees"

\* load: run_simple_load, then the COUNT(*) of the table, which is only logged.
Load ==
    /\ pc = "transformed"
    /\ started' = Append(started, "load")
    /\ \/ /\ pc' = "loaded"
          /\ table' = df.rows
          /\ table_exists' = TRUE
          /\ commits' = ToSqlCommits(Len(df.rows), batch_size)
          /\ completed' = Append(completed, "load")
          /\ UNCHANGED << first_error, report >>
       \/ \E dropped \in BOOLEAN :
            /\ first_error' = "sqlite3.OperationalError"
            /\ pc' = PcAfterRaise("loaded")
            /\ report' = (IF PcAfterRaise("loaded") = "done"
                          THEN FailedReport(LoadFailureMessage("sqlite3.OperationalError"))
                          ELSE report)
            /\ table' = (IF dropped THEN << >> ELSE table)
            /\ table_exists' = (dropped \/ table_exists)
            /\ UNCHANGED << commits, completed >>
    /\ UNCHANGED << df_raw, df, numeric_columns, categorical_columns, date_columns,
                    raw_validation, validation_report, configVars, load_validation, target,
                    loaderVars >>

\* run, after the three stages: the success report.
Report ==
    /\ pc = "loaded"
    /\ pc' = "done"
    /\ report' = SuccessReport(Len(df.rows))
    /\ UNCHANGED << df_raw, df, numeric_columns, categorical_columns, date_columns,
                    raw_validation, validation_report, started, completed, first_error,
                    storeVars, loaderVars >>

InitLoaderIdle ==
    /\ lpc = "idle" /\ conn = FALSE /\ data = << >> /\ submitted = << >>
    /\ indexed = FALSE /\ index_errors = FALSE /\ ret = "none" /\ calls = 0

Init ==
    /\ pc = "new"
    /\ df_raw = NoDf /\ df = NoDf
    /\ numeric_columns = {} /\ categorical_columns = {} /\ date_columns = {}
    /\ raw_validation = NoReport /\ validation_report = NoReport
    /\ started = << >> /\ completed = << >>
    /\ first_error = ""
    /\ report = [status |-> "none", error |-> "", rows_processed |-> 0]
    /\ \E c \in Configs : batch_size = c.batch_size /\ max_cols = c.max_columns
    /\ table = << >> /\ table_exists = FALSE /\ commits = 0
    /\ load_validation = NoLoadValidation /\ target = NoTarget
    /\ InitLoaderIdle

Next ==
    \/ Construct
    \/ Extract
    \/ HandleMissing
    \/ ConvertTypes
    \/ ConvertDates
    \/ CleanText
    \/ DeriveFeatures
    \/ ValidateCleaned
    \/ SelectAndSave
    \/ Load
    \/ Report

Spec == Init /\ [][Next]_vars

\* ================================================== properties of the run
IsPrefix(a, b) == Len(a) <= Len(b) /\ \A i \in 1..Len(a) : a[i] = b[i]
InSeq(x, q) == \E i \in 1..Len(q) : q[i] = x
HasIssue(rep, issue) == InSeq(issue, rep.issues)

\* C1: when clean_loan_data (default configuration) has returned, no row of the
\* returned set has a null in loan_amnt, issue_d or loan_status.
C1_NoNullInCriticalColumns ==
    pc = "cleaned" /\ CriticalColumns \subseteq df_raw.cols =>
        \A i \in 1..Len(df.rows) : \A c \in CriticalColumns : ~IsNull(df.rows[i][c])

\* C5: the stages are entered in the order extract, transform, load, each at
\* most once and only after the previous one returned; when a stage raised no
\* further stage is entered and the report is 'failed'; the report is 'success'
\* only when the three stages returned.
C5_StageOrder ==
    /\ IsPrefix(started, Stages)
    /\ IsPrefix(completed, started)
    /\ Len(started) <= Len(completed) + 1
    /\ (first_error # "" => report.status = "failed" /\ pc = "done"
                            /\ Len(started) = Len(completed) + 1)
    /\ (report.status = "success" => completed = Stages)
    /\ (pc = "done" => report.status \in {"success", "failed"})
C5_NoStageAfterFailure ==
    (first_error # "" \/ report.status = "failed") => started' = started /\ completed' = completed
C5_StagesInOrderNoRetry == []C5_StageOrder /\ [][C5_NoStageAfterFailure]_vars
C5_Witness ==
    /\ pc = "done" /\ report.status = "failed"
    /\ started = << "extract", "transform" >> /\ completed = << "extract" >>

\* C6: whenever the post-clean validation report has status FAIL, the
\* transform stage does not return and the load stage is never entered.
C6_FailedCleanGateStopsRun ==
    validation_report.status = "FAIL" =>
        ~InSeq("load", started) /\ ~InSeq("transform", completed)

\* C7: the error of a failed run report is the message of the first exception
\* raised inside the failing stage.
C7_ReportCarriesOriginalError ==
    pc = "done" /\ report.status = "failed" /\ Len(started) > 0 =>
        report.error = first_error

\* A batch count that leaves out a last batch of fewer than batch_size rows.
BatchCountWhole(n, bs) == n \div bs

\* The number of batches of batch_size rows that n rows make.
BatchCount(n, bs) == (n + bs - 1) \div bs

\* C8: a successful run wrote the transformed set in batches of batch_size
\* rows, one transaction each, and validated the stored table before the
\* report was produced.
C8_LoadIsBatchedAndValidated ==
    report.status = "success" =>
        /\ commits = BatchCount(Len(df.rows), batch_size)
        /\ load_validation.run

\* The status rule of C9 for a set with the given required columns.
ClaimedStatus(set, required) ==
    IF DfEmpty(set) \/ ~(CriticalColumns \subseteq set.cols) THEN "FAIL"
    ELSE IF ~(required \subseteq set.cols) THEN "WARNING"
    ELSE "PASS"

\* C9: both validators return FAIL for an empty set or an absent critical
\* column, WARNING for a non-empty set that lacks only non-critical required
\* columns, and PASS otherwise.
C9_ValidatorStatusRule ==
    /\ (raw_validation.status # "none" =>
            raw_validation.status = ClaimedStatus(df_raw, RawRequiredColumns))
    /\ (pc = "cleaned" =>
            validation_report.status = ClaimedStatus(df, CleanRequiredColumns))

\* The data-quality findings of a set.
HasQualityIssue(set) ==
    \/ DuplicateRows(set) > 0
    \/ TooManyMissing(set)
    \/ ("loan_amnt" \in set.cols /\ NonPositiveCount(set, "loan_amnt") > 0)
    \/ ("annual_inc" \in set.cols /\ NonPositiveCount(set, "annual_inc") > 0)

ScenarioA ==
    MkDf({"loan_amnt", "int_rate", "issue_d", "loan_status"},
         << MkRow(Num(10000), Str("10.5%"), Str("2018-12-01"), Str("FULLY PAID"), Null),
            MkRow(Null, Str("15.2%"), Null, Str("CHARGED OFF"), Null) >>)

\* C11: for the input of scenario A clean_loan_data returns exactly one row
\* (the second is dropped), with is_default = 0, is_fully_paid = 1,
\* int_rate = 10.5 and a non-null issue_d.
C11_ScenarioADropsSecondRow ==
    pc = "cleaned" /\ df_raw = ScenarioA =>
        /\ Len(df.rows) = 1
        /\ df.rows[1]["is_default"] = Num(0)
        /\ df.rows[1]["is_fully_paid"] = Num(1)
        /\ df.rows[1]["int_rate"] = Num(105)
        /\ ~IsNull(df.rows[1]["issue_d"])

\* The columns of a set in which every value is null.
AllNullColumns(set) ==
    {c \in set.cols : Len(set.rows) > 0 /\ MissingCount(set, c) = Len(set.rows)}

\* C12: for a set (with its critical columns) that has a column in which every
\* value is null, _handle_missing_values does not raise and leaves no null in
\* that column: every value of it is the sentinel UNKNOWN or 0.
C12_AllNullColumnImputed ==
    CriticalColumns \subseteq df_raw.cols /\ AllNullColumns(df_raw) # {} =>
        /\ first_error \notin {"UnboundLocalError", "KeyError"}
        /\ (pc = "missing" =>
              \A c \in AllNullColumns(df_raw) : \A i \in 1..Len(df.rows) :
                  df.rows[i][c] \in {Str("UNKNOWN"), Num(0)})

\* C13: a second run of _convert_data_types on the output of the first gives
\* the same column profile (numeric_columns, categorical_columns,
\* date_columns) as the first run gave.
C13_TypeCoercionProfileIdempotent ==
    pc = "typed" =>
        /\ ConvertDataTypes(df).numeric_columns = numeric_columns
        /\ ConvertDataTypes(df).categorical_columns = categorical_columns
        /\ ConvertDataTypes(df).date_columns = date_columns

\* C14: in every row that _create_derived_features has produced, is_default
\* and is_fully_paid are not both 1, whatever the loan_status of the row.
C14_DefaultAndFullyPaidExclusive ==
    {"is_default", "is_fully_paid"} \subseteq df.cols =>
        \A i \in 1..Len(df.rows) :
            /\ df.rows[i]["is_default"] \in {Num(0), Num(1)}
            /\ df.rows[i]["is_fully_paid"] \in {Num(0), Num(1)}
            /\ ~(df.rows[i]["is_default"] = Num(1) /\ df.rows[i]["is_fully_paid"] = Num(1))
C14_Witness ==
    /\ pc = "featured"
    /\ \E i \in 1..Len(df.rows) : df.rows[i]["is_default"] = Num(1)
    /\ \E i \in 1..Len(df.rows) : df.rows[i]["is_fully_paid"] = Num(1)
    /\ \E i \in 1..Len(df.rows) : IsNull(df.rows[i]["loan_status"])

\* C15: in every row that has a loan_to_income_ratio, the ratio is null when
\* annual_inc is zero or null, and otherwise it is a finite number q with
\* q * annual_inc = loan_amnt; it is never infinite.
C15_LoanToIncomeRatio ==
    "loan_to_income_ratio" \in df.cols =>
        \A i \in 1..Len(df.rows) :
            LET inc == df.rows[i]["annual_inc"]
                amnt == df.rows[i]["loan_amnt"]
                q == df.rows[i]["loan_to_income_ratio"]
            IN  /\ q.k \in {"null", "num"} /\ q.d > 0
                /\ (IsNull(inc) \/ (inc.k = "num" /\ inc.n = 0) => IsNull(q))
                /\ (inc.k = "num" /\ inc.n # 0 /\ amnt.k = "num" =>
                       q.k = "num" /\ q.n * inc.n * amnt.d = amnt.n * inc.d * q.d)
C15_Witness ==
    /\ pc = "featured" /\ "loan_to_income_ratio" \in df.cols
    /\ \E i \in 1..Len(df.rows) :
           /\ df.rows[i]["annual_inc"] = Num(0) /\ df.rows[i]["loan_amnt"].n > 0
           /\ IsNull(df.rows[i]["loan_to_income_ratio"])
    /\ \E i \in 1..Len(df.rows) :
           df.rows[i]["annual_inc"].n > 0 /\ df.rows[i]["loan_to_income_ratio"].k = "num"

\* C16: _select_columns returns at most max_columns columns, whatever
\* max_columns is configured, and lists the essential columns before any
\* additional one.
C16_SelectColumnsCapped ==
    /\ (pc = "transformed" => Cardinality(df.cols) <= max_cols)
    /\ (pc = "cleaned" =>
          LET sel == SelectedColumns(df.cols, max_cols)
          IN  \A i, j \in 1..Len(sel) :
                  i < j /\ InSeq(sel[j], EssentialColumns) => InSeq(sel[i], EssentialColumns))

\* The non-null cells of column col all are text that the k-th date format
\* parses and that no earlier format parses, and there is at least one.
AllMatchFormat(set, col, k) ==
    /\ NonNullCells(set, col) # {}
    /\ \A i \in NonNullCells(set, col) :
          /\ set.rows[i][col].k = "str"
          /\ ~IsNull(Strptime(set.rows[i][col].s, DatePatterns[k]))
          /\ \A e \in 1..(k - 1) : IsNull(Strptime(set.rows[i][col].s, DatePatterns[e]))

\* C17: for every k in 1..4, a date column whose non-null values all match the
\* k-th format (and no earlier one) leaves _convert_date_columns with all those
\* values parsed to non-null dates.
C17_FirstMatchingFormatParses ==
    [][pc = "typed" /\ pc' = "dated" =>
         \A col \in date_columns \cap df.cols : \A k \in 1..Len(DatePatterns) :
             AllMatchFormat(df, col, k) =>
                 \A i \in NonNullCells(df, col) : df'.rows[i][col].k = "date"]_vars

\* The policy table of C18 on the resolved type of a column: a date column
\* stays null; a numeric column, int_rate as percentage text included, gets 0
\* (rate or pct in the name and more than 30% missing) or the median of its
\* numbers; a text column gets UNKNOWN (more than 30% missing) or its mode.
ClaimedFill(set, col) ==
    IF IsDateName(col) THEN Null
    ELSE IF IsNumericDtype(set.dt[col]) \/ col = "int_rate" THEN
        IF MissingPctAbove30(set, col) /\ IsRateName(col) THEN Num(0)
        ELSE MedianValue(IF col = "int_rate"
                         THEN SetColumn(set, "int_rate", "float64", [op |-> "to_numeric"])
                         ELSE set, col)
    ELSE IF MissingPctAbove30(set, col) THEN Str("UNKNOWN")
    ELSE ModeValue(set, col)

\* C18: when _handle_missing_values has returned (no row dropped), every cell
\* that was null in the raw set holds the fill value of the policy table for
\* its column; a filled int_rate is compared as the number it denotes.
C18_FillPolicyOnResolvedType ==
    pc = "missing" /\ Len(df.rows) = Len(df_raw.rows) =>
        \A c \in df_raw.cols : \A i \in 1..Len(df_raw.rows) :
            IsNull(df_raw.rows[i][c]) =>
                (IF c = "int_rate" THEN ToNumericPct(df.rows[i][c]) ELSE df.rows[i][c])
                    = ClaimedFill(df_raw, c)

\* C19: after clean_loan_data (no row dropped), is_default is 1 exactly in the
\* rows whose raw loan_status, upper-cased, is one of the default statuses.
C19_IsDefaultCaseInsensitive ==
    pc = "cleaned" /\ "loan_status" \in df_raw.cols /\ Len(df.rows) = Len(df_raw.rows) =>
        \A i \in 1..Len(df.rows) :
            LET raw == df_raw.rows[i]["loan_status"]
            IN  /\ df.rows[i]["is_default"] \in {Num(0), Num(1)}
                /\ (df.rows[i]["is_default"] = Num(1)
                      <=> (raw.k = "str" /\ Upper(raw.s) \in DefaultStatuses))

\* The columns no step after _handle_missing_values writes: they show the
\* order of the rows.
UntouchedColumns == {"loan_amnt", "annual_inc"}
SameRowsInOrder(a, b) ==
    /\ Len(a.rows) = Len(b.rows)
    /\ \A i \in 1..Len(a.rows) :
         \A c \in UntouchedColumns \cap a.cols \cap b.cols : a.rows[i][c] = b.rows[i][c]

\* The steps of a run that follow _handle_missing_values and hand a set on.
C24_LaterStep ==
    /\ pc \in {"missing", "typed", "dated", "text", "featured", "cleaned"}
    /\ pc' \in {"typed", "dated", "text", "featured", "cleaned", "transformed"}

C25_TypeCoercionBeforeMissingValues ==
    [][/\ (pc' = "typed" => pc = "extracted")
       /\ (pc' = "missing" =>
              /\ pc = "dated"
              /\ \A c \in df.cols :
                    /\ (IsDateName(c) => IsDatetimeDtype(df.dt[c]))
                    /\ (c = "int_rate" => IsNumericDtype(df.dt[c])))
       /\ (pc' = "featured" => pc \in {"missing", "text"})
       /\ (pc' = "cleaned" => pc = "featured")]_vars

\* C26: _handle_missing_values returns without raising for every input that
\* has the three critical columns, an input without any missing value
\* included, and returns the rows of such an input unchanged.
C26_HandleMissingValuesReturns ==
    [][pc = "extracted" /\ CriticalColumns \subseteq df_raw.cols =>
          /\ pc' = "missing"
          /\ first_error' = ""
          /\ (TotalMissing(df_raw) = 0 => df'.rows = df_raw.rows)]_vars

\* C30: run_pipeline never lets an exception out: a failure in the constructor
\* of the pipeline or in any stage ends the call with a report whose status
\* is 'failed' and which carries the error message, and every report returned
\* has the status 'success' or 'failed'.
C30_RunPipelineAlwaysReports ==
    /\ [](/\ (first_error # "" =>
                /\ pc = "done"
                /\ report.status = "failed" /\ report.error # "")
          /\ (pc = "done" => report.status \in {"success", "failed"})
          /\ (pc = "done" /\ report.status = "failed" => report.error # "")
          /\ (pc = "done" /\ report.status = "success" =>
                first_error = "" /\ completed = Stages)
          /\ (pc # "done" => report.status = "none"))
    /\ [][/\ (first_error' # first_error => pc' = "done" /\ report'.status = "failed")
          /\ (pc = "new" => pc' = "start" \/ (pc' = "done" /\ report'.status = "failed"))
          /\ (pc' = "done" /\ completed' # Stages => report'.status = "failed")]_vars

\* The constructor failed: no stage was entered and the failed report is there.
C30_Witness ==
    /\ pc = "done" /\ started = << >>
    /\ report.status = "failed" /\ report.error = "PermissionError"

\* ======================================================== SQLiteDataLoader
\* The loader is modelled on rows [id, ok]: id is the position of the row in
\* the prepared set (a negative id is a row the table held before the load)
\* and ok tells whether SQLite accepts the row; a row that is not ok makes the
\* executemany of its batch raise sqlite3.Error.
MaxCalls == 2

LoadRow(i, ok) == [id |-> i, ok |-> ok]
LoadInputs ==
    UNION {{[i \in 1..n |-> LoadRow(i, f[i])] : f \in [1..n -> BOOLEAN]} : n \in 0..MaxLoadRows}
OldTables == {[i \in 1..n |-> LoadRow(-i, TRUE)] : n \in 0..MaxOldRows}

\* A slicing that leaves out the first row of every batch.
BatchSkipping(rows, k, bs) ==
    SubSeq(rows, (k - 1) * bs + 2, IF k * bs < Len(rows) THEN k * bs ELSE Len(rows))

\* batch = data[i:i + batch_size] for the k-th turn of the loop (i = (k-1) * bs).
Batch(rows, k, bs) ==
    SubSeq(rows, (k - 1) * bs + 1, IF k * bs < Len(rows) THEN k * bs ELSE Len(rows))

\* The rows executemany has inserted in the open transaction when it returns
\* or raises: the rows before the first one SQLite refuses.
RECURSIVE Inserted(_, _)
Inserted(batch, i) ==
    IF i > Len(batch) \/ ~batch[i].ok THEN << >>
    ELSE << batch[i] >> \o Inserted(batch, i + 1)

\* A handler that leaves the open insert to the next commit instead of rolling back.
AfterRollbackKeeps(tbl, pending) == tbl \o pending

\* conn.commit() and conn.rollback() on the committed rows and the open insert.
AfterCommit(tbl, pending) == tbl \o pending
AfterRollback(tbl, pending) == tbl

\* A table that is created only when absent, its rows kept (append semantics).
TableAfterCreateKeeps(old) == old

\* DROP TABLE IF EXISTS ...; CREATE TABLE ...: the rows of the new table.
TableAfterCreate(old) == << >>

\* A load_to_sqlite that validates whatever _insert_data_simple returned.
RunsValidationAlways(success) == TRUE

\* if success: ... of load_to_sqlite: indexes and validation follow only a
\* successful insertion.
RunsValidation(success) == success

\* SQLiteDataLoader._validate_load: the row count against expected_rows with
\* the 1% tolerance; a missing table makes the COUNT(*) raise.  (The NULL
\* counts of the critical columns only add issues; the rows of this model
\* carry no column values.)
ValidateLoad(tbl, exists, expected) ==
    ValidateStored([loader |-> "SQLiteDataLoader", exists |-> exists, rows |-> Len(tbl),
                    expected |-> expected, nulls |-> NoNulls, invalid_amounts |-> 0])

\* load_to_sqlite is called (again): the connection is created when there is
\* none; create_connection logs a failure and returns False, conn stays None.
Connect ==
    /\ lpc \in {"idle", "returned"}
    /\ calls < MaxCalls
    /\ calls' = calls + 1
    /\ lpc' = "connected"
    /\ conn' \in (IF conn THEN {TRUE} ELSE BOOLEAN)
    /\ submitted' = << >> /\ indexed' = FALSE /\ index_errors' = FALSE /\ ret' = "none"
    /\ commits' = 0 /\ load_validation' = NoLoadValidation
    /\ UNCHANGED << data, configVars, table, table_exists, target, pipeVars >>

\* _prepare_dataframe_simple keeps every row; _create_table_simple drops the
\* table and creates it again.  An exception (no connection, a refused CREATE)
\* is re-raised and load_to_sqlite returns False.
CreateTable ==
    /\ lpc = "connected"
    /\ IF ~conn
       THEN /\ lpc' = "returned" /\ ret' = FALSE
            /\ UNCHANGED << table, table_exists >>
       ELSE \/ /\ lpc' = "created"
               /\ table' = TableAfterCreate(table)
               /\ table_exists' = TRUE
               /\ UNCHANGED ret
            \/ /\ lpc' = "returned" /\ ret' = FALSE
               /\ table' = << >> /\ table_exists' = FALSE
    /\ UNCHANGED << conn, data, submitted, indexed, index_errors, calls, configVars, commits, target,
                    load_validation, pipeVars >>

\* A load_to_sqlite that returns what the validation found.
ReturnValueValidated(success, validation) == success /\ validation.success

\* return True after the validation was logged, return False otherwise: the
\* value load_to_sqlite returns for what _insert_data_simple returned.
ReturnValue(success, validation) == success

\* load_to_sqlite after _insert_data_simple returned success: the indexes and
\* the validation when it is True, and the value returned.  The COUNT(*) of
\* _validate_load may raise (readable = FALSE), which the validation reports.
AfterInsert(success, tbl) ==
    /\ indexed' = RunsValidation(success)
    /\ \E readable \in BOOLEAN :
          /\ load_validation' = (IF RunsValidation(success)
                                 THEN ValidateLoad(tbl, table_exists /\ readable, Len(data))
                                 ELSE load_validation)
          /\ ret' = ReturnValue(success, load_validation')

\* One turn of the loop of _insert_data_simple: executemany and commit, or, when
\* executemany raises, rollback and return False (load_to_sqlite returns False).
InsertBatch ==
    /\ lpc = "created"
    /\ Len(submitted) < BatchCount(Len(data), batch_size)
    /\ LET k == Len(submitted) + 1
           batch == Batch(data, k, batch_size)
           pending == Inserted(batch, 1)
       IN  IF Len(pending) = Len(batch)
           THEN /\ table' = AfterCommit(table, pending)
                /\ commits' = commits + 1
                /\ submitted' = Append(submitted, [batch |-> k, outcome |-> "committed"])
                /\ UNCHANGED << lpc, ret, indexed, load_validation >>
           ELSE /\ table' = AfterRollback(table, pending)
                /\ submitted' = Append(submitted, [batch |-> k, outcome |-> "rolled back"])
                /\ lpc' = "returned"
                /\ AfterInsert(FALSE, AfterRollback(table, pending))
                /\ UNCHANGED commits
    /\ UNCHANGED << conn, data, calls, index_errors, configVars, table_exists, target, pipeVars >>

\* After the last batch _insert_data_simple returns True: _create_indexes (a
\* CREATE INDEX or the commit that raises is logged inside _create_indexes,
\* which returns normally), _validate_load, return True.
IndexAndValidate ==
    /\ lpc = "created"
    /\ Len(submitted) = BatchCount(Len(data), batch_size)
    /\ lpc' = "returned"
    /\ index_errors' \in BOOLEAN
    /\ AfterInsert(TRUE, table)
    /\ UNCHANGED << conn, data, submitted, calls, configVars, table, table_exists, target,
                    commits, pipeVars >>

InitLoad ==
    /\ pc = "start"
    /\ df_raw = NoDf /\ df = NoDf
    /\ numeric_columns = {} /\ categorical_columns = {} /\ date_columns = {}
    /\ raw_validation = NoReport /\ validation_report = NoReport
    /\ started = << >> /\ completed = << >>
    /\ first_error = ""
    /\ report = [status |-> "none", error |-> "", rows_processed |-> 0]
    /\ batch_size \in 1..MaxBatchSize
    /\ max_cols = max_columns
    /\ data \in LoadInputs
    /\ table \in OldTables
    /\ table_exists \in (IF table = << >> THEN BOOLEAN ELSE {TRUE})
    /\ commits = 0
    /\ load_validation = NoLoadValidation /\ target = NoTarget
    /\ lpc = "idle" /\ conn = FALSE /\ submitted = << >>
    /\ indexed = FALSE /\ index_errors = FALSE /\ ret = "none" /\ calls = 0

NextLoad ==
    \/ Connect
    \/ CreateTable
    \/ InsertBatch
    \/ IndexAndValidate

SpecLoad == InitLoad /\ [][NextLoad]_vars

\* ================================================ properties of the loader
\* The rows of the batches 1..k of the prepared set.
RowsOfBatches(k) ==
    SubSeq(data, 1, IF k * batch_size < Len(data) THEN k * batch_size ELSE Len(data))

\* The batch whose insertion failed, 0 when none did.
FailedBatch ==
    IF \E i \in 1..Len(submitted) : submitted[i].outcome = "rolled back"
    THEN CHOOSE i \in 1..Len(submitted) : submitted[i].outcome = "rolled back"
    ELSE 0

\* C2: when the insertion of batch k fails, the table holds the rows of the
\* batches 1..k-1 and nothing of batch k, the batches were submitted once each
\* in the order 1..k and none after k, and load_to_sqlite returns False.
C2_FailedBatchRolledBackAlone ==
    /\ \A i \in 1..Len(submitted) : submitted[i].batch = i
    /\ (FailedBatch # 0 =>
          /\ FailedBatch = Len(submitted)
          /\ table = RowsOfBatches(FailedBatch - 1)
          /\ commits = FailedBatch - 1
          /\ lpc = "returned" /\ ret = FALSE)
C2_Witness ==
    /\ FailedBatch = 2 /\ Len(data) > 2 * batch_size
    /\ \E i \in 1..Len(Batch(data, 2, batch_size)) : i > 1 /\ ~Batch(data, 2, batch_size)[i].ok

\* Scenario C: 5 rows, batch_size 2, the second batch fails.
ScenarioC == Len(data) = 5 /\ batch_size = 2 /\ FailedBatch = 2

C4_LoadReplacesTable ==
    lpc = "returned" /\ ret = TRUE =>
        /\ table = data
        /\ load_validation.run
        /\ load_validation.expected_rows = Len(data)
        /\ (load_validation.issues # << "Erreur de validation" >> =>
                /\ load_validation.success
                /\ load_validation.actual_rows = Len(data))
C4_Witness ==
    /\ lpc = "returned" /\ ret = TRUE /\ calls = 2
    /\ Len(data) > batch_size
    /\ load_validation.success /\ load_validation.actual_rows = Len(data)


\* The steps of one call of load_to_sqlite as far as the state shows them:
\* nothing is inserted without a connection and a created table, the indexes
\* follow the commit of every batch of the set, the validation follows the
\* indexes.
C20_StepOrderState ==
    /\ (Len(submitted) > 0 => conn /\ table_exists /\ lpc \in {"created", "returned"})
    /\ (lpc = "created" => conn /\ table_exists)
    /\ (indexed =>
            /\ lpc = "returned"
            /\ Len(table) = Len(data)
            /\ commits = Len(submitted)
            /\ \A i \in 1..Len(submitted) : submitted[i].outcome = "committed")
    /\ (load_validation.run => indexed)

\* The steps of one call of load_to_sqlite as the transitions show them: connect,
\* then drop-and-create, then the batches in order, then indexes and validation
\* together; a call that returned takes no further step (the next step is a
\* new call).
C20_StepOrderAction ==
    /\ << lpc, lpc' >> \in {<< "idle", "connected" >>, << "returned", "connected" >>,
                            << "connected", "created" >>, << "connected", "returned" >>,
                            << "created", "created" >>, << "created", "returned" >>}
    /\ (table' # table => lpc \in {"connected", "created"})
    /\ (Len(submitted') > Len(submitted) =>
            /\ lpc = "created" /\ table_exists
            /\ submitted'[Len(submitted')].batch = Len(submitted) + 1)
    /\ (indexed' /\ ~indexed => load_validation'.run /\ ret' = TRUE)

CeilDiv(n, bs) == CHOOSE m \in 0..n : m * bs >= n /\ \A j \in 0..n : j * bs >= n => m <= j

\* The step of the loader that submits one more batch and commits it.
C21_CommitsBatch ==
    /\ Len(submitted') = Len(submitted) + 1
    /\ submitted'[Len(submitted')].outcome = "committed"

\* C21: _insert_data_simple submits the rows in their original order as
\* ceil(N / batch_size) contiguous batches of batch_size rows, the last one
\* possibly shorter, each committed before the next is submitted; 5 rows in
\* batches of 2 give 3 committed batches of 2, 2 and 1 rows; no row gives no
\* batch and the call succeeds.
C21_ContiguousBatchesInOrder ==
    /\ [](/\ \A i \in 1..Len(submitted) : submitted[i].batch = i
          /\ Len(submitted) <= CeilDiv(Len(data), batch_size)
          /\ (/\ lpc = "created" \/ (lpc = "returned" /\ (Len(submitted) > 0 \/ ret))
              /\ \A i \in 1..Len(submitted) : submitted[i].outcome = "committed")
                => /\ commits = Len(submitted)
                   /\ table = SubSeq(data, 1, Len(table))
                   /\ Len(table) = (IF Len(submitted) * batch_size < Len(data)
                                    THEN Len(submitted) * batch_size ELSE Len(data))
          /\ (lpc = "returned" /\ ret = TRUE
                => /\ Len(submitted) = CeilDiv(Len(data), batch_size)
                   /\ commits = CeilDiv(Len(data), batch_size)
                   /\ table = data
                   /\ (Len(data) = 5 /\ batch_size = 2 => commits = 3)
                   /\ (Len(data) = 0 => submitted = << >>)))
    /\ [][C21_CommitsBatch =>
            /\ commits = Len(submitted) /\ commits' = commits + 1
            /\ Len(table') - Len(table) \in 1..batch_size
            /\ (Len(table') - Len(table) < batch_size => table' = data)
            /\ table' = table \o SubSeq(data, Len(table) + 1, Len(table'))]_vars

\* 5 rows loaded in batches of 2: three batches committed, the last of one row.
C21_Witness ==
    /\ Len(data) = 5 /\ batch_size = 2
    /\ lpc = "returned" /\ ret = TRUE
    /\ Len(submitted) = 3 /\ commits = 3 /\ table = data


\* ============================================ _validate_load on its own
\* The tables _validate_load is run on: expected_rows around the sizes where
\* 1% is a whole number of rows, the stored count within MaxDeviation of it,
\* each validated column absent (-1), without NULL or with one, and at most
\* one row with a non-positive amount.
ExpectedRowCounts == {0, 1, 100, 200, 300}
StoredRowCounts(x) == {r \in 0..(x + MaxDeviation) : r + MaxDeviation >= x}
Targets ==
    UNION {{[loader |-> l, exists |-> e, rows |-> r, expected |-> x, nulls |-> n,
             invalid_amounts |-> a] :
                l \in {"SQLiteDataLoader", "DataLoader"}, e \in BOOLEAN,
                r \in StoredRowCounts(x),
                n \in [DOMAIN NoNulls -> {-1, 0, 1}], a \in {0, 1}} : x \in ExpectedRowCounts}

InitValidate ==
    /\ pc = "start"
    /\ df_raw = NoDf /\ df = NoDf
    /\ numeric_columns = {} /\ categorical_columns = {} /\ date_columns = {}
    /\ raw_validation = NoReport /\ validation_report = NoReport
    /\ started = << >> /\ completed = << >>
    /\ first_error = ""
    /\ report = [status |-> "none", error |-> "", rows_processed |-> 0]
    /\ batch_size = batch_size_default /\ max_cols = max_columns
    /\ table = << >> /\ table_exists = FALSE /\ commits = 0
    /\ load_validation = NoLoadValidation
    /\ target \in Targets
    /\ InitLoaderIdle

\* One call of _validate_load(table_name, expected_rows).
RunValidateLoad ==
    /\ target.loader # "none"
    /\ ~load_validation.run
    /\ load_validation' = ValidateStored(target)
    /\ UNCHANGED << pipeVars, loaderVars, configVars, table, table_exists, commits, target >>

NextValidate == RunValidateLoad

SpecValidate == InitValidate /\ [][NextValidate]_vars

\* Whether the stored row count is more than 1% of expected_rows away from it.
BeyondTolerance(t) ==
    (IF t.rows >= t.expected THEN t.rows - t.expected ELSE t.expected - t.rows) * 100
        > t.expected

\* C22: _validate_load reports success = False exactly when the stored row
\* count differs from expected_rows by more than 1% of expected_rows; the NULLs
\* counted in the critical columns are recorded as issues and never change
\* success.
C22_FailsExactlyBeyondTolerance ==
    load_validation.run =>
        /\ load_validation.success = ~BeyondTolerance(target)
        /\ load_validation.success = ValidateStored([target EXCEPT !.nulls = NoNulls]).success


\* ================================== _create_derived_features on its own
\* The sets _create_derived_features is handed: a raw set of the seven input
\* columns taken through the steps of clean_loan_data that precede it (so that
\* its columns have the types those steps give them), restricted to a subset
\* of its columns.
MaxDeriveRows == 2
TypedBeforeFeatures(raw) ==
    LET m == HandleMissingValues(raw).df
        t == ConvertDataTypes(m)
    IN  CleanTextColumns(ConvertDateColumns(t.df, t.date_columns))
ProjectDf(d, cols) ==
    [cols |-> cols, dt |-> [c \in cols |-> d.dt[c]],
     rows |-> [i \in 1..Len(d.rows) |-> [c \in cols |-> d.rows[i][c]]]]
DeriveInputs ==
    {ProjectDf(TypedBeforeFeatures(MkDf(WideColumns, rows)), cols) :
        rows \in SeqsUpTo(RawRows, MaxDeriveRows), cols \in SUBSET WideColumns}

InitDerive ==
    /\ pc = "text"
    /\ df_raw = NoDf /\ df \in DeriveInputs
    /\ numeric_columns = {} /\ categorical_columns = {} /\ date_columns = {}
    /\ raw_validation = NoReport /\ validation_report = NoReport
    /\ started = << >> /\ completed = << >>
    /\ first_error = ""
    /\ report = [status |-> "none", error |-> "", rows_processed |-> 0]
    /\ batch_size = batch_size_default /\ max_cols = max_columns
    /\ table = << >> /\ table_exists = FALSE /\ commits = 0
    /\ load_validation = NoLoadValidation /\ target = NoTarget
    /\ InitLoaderIdle

NextDerive == DeriveFeatures

SpecDerive == InitDerive /\ [][NextDerive]_vars

\* The input columns each derived column is computed from.
FeatureInputs ==
    [is_default |-> {"loan_status"}, is_fully_paid |-> {"loan_status"},
     income_category |-> {"annual_inc"},
     loan_to_income_ratio |-> {"loan_amnt", "annual_inc"},
     credit_age_years |-> {"earliest_cr_line", "issue_d"},
     credit_age_category |-> {"earliest_cr_line", "issue_d"},
     risk_category |-> {"grade"},
     issue_year |-> {"issue_d"}, issue_month |-> {"issue_d"},
     issue_quarter |-> {"issue_d"}, issue_season |-> {"issue_d"},
     int_rate_category |-> {"int_rate"}]
DerivedColumns == DOMAIN FeatureInputs

C27_FailedLoadLeavesNewPrefixOnly ==
    /\ [](FailedBatch # 0 =>
            /\ table_exists
            /\ table = SubSeq(data, 1, (FailedBatch - 1) * batch_size)
            /\ \A i \in 1..Len(table) : table[i].id > 0)
    /\ [][/\ (lpc = "connected" /\ lpc' = "created" => table' = << >>)
          /\ (lpc = "created" /\ lpc' = "returned" /\ ~ret' => table' = table)]_vars

\* A second call on a table that held rows, failed at its second batch: the
\* table holds the first batch of the new set.
C27_Witness ==
    /\ calls = 2 /\ lpc = "returned"
    /\ FailedBatch = 2
    /\ Len(table) = batch_size /\ table = Batch(data, 1, batch_size)


\* C28: load_to_sqlite returns True if and only if the table was created and
\* every batch was committed; whether an index statement failed and what
\* _validate_load found do not change the value returned.
C28_ReturnsTrueIffAllCommitted ==
    lpc = "returned" =>
        /\ ret \in BOOLEAN
        /\ ret = (/\ conn /\ table_exists
                  /\ Len(submitted) = CeilDiv(Len(data), batch_size)
                  /\ \A i \in 1..Len(submitted) : submitted[i].outcome = "committed")

\* A call that returned True although an index statement failed and the
\* validation reported a failure.
C28_Witness ==
    /\ lpc = "returned" /\ ret = TRUE
    /\ Len(submitted) > 1
    /\ index_errors /\ load_validation.run /\ ~load_validation.success


\* C29: the column set LoanETLPipeline.transform hands to the load stage holds
\* every derived column clean_loan_data produced, whenever max_columns is
\* large enough to hold the columns of the cleaned set.
C29_SelectionKeepsDerivedColumns ==
    [][pc = "cleaned" /\ pc' = "transformed" /\ Cardinality(df.cols) <= max_cols =>
          (df.cols \cap DerivedColumns) \subseteq df'.cols]_vars

====
